---- MODULE Spec2Model ----
(***************************************************************************)
(* Model of the query-answering core of server/scripts/ask.py:             *)
(*   - extract_query_elements / ask_main (query decomposition, caps),      *)
(*   - process_chain_of_thought_question and the asyncio.gather fan-out,   *)
(*   - format_query_with_context (budgeted context assembly).              *)
(*   - extract_query_elements from the parse on (defaults, cuts, shapes),  *)
(*   - the date-range mode ask_main derives from the query text,           *)
(*   - get_relevant_events_and_claims (filters, scores, order, caps).      *)
(*                                                                         *)
(* A text is modelled run-length encoded: a sequence of runs               *)
(* <<section, id, n>>, n > 0 characters written by one prompt section for  *)
(* one item (id 0: literal text of the source).  The lengths of literals   *)
(* are those of the source; the lengths of the data are inputs.            *)
(***************************************************************************)
EXTENDS Integers, Sequences, FiniteSets, TLC

VARIABLES
    \* ---- ask_main and the fan-out (specification Spec)
    llm_response,                   \* what the extractor's model call returned
    max_chain_of_thought_questions, \* parameter of ask_main
    mainPc,                         \* position of ask_main
    ideal_mix,                      \* retrieval caps computed by ask_main
    chain_of_thought_questions,     \* the sub-questions handed to the fan-out
    retrieved,                      \* main retrieval: events, ideas, chunks
    pc,                             \* position of each sub-question task
    failedAt,                       \* the step at which a sub-question's provider call failed
    result,                         \* value returned by each finished task
    gather,                         \* state of the future built by asyncio.gather
    order,                          \* sub-question tasks in order of completion
    cot_responses,                  \* value of the await on gather
    formatted_query,                \* prompt returned by format_query_with_context
    out,                            \* increments yielded by ask_main so far
    running,                        \* task holding the event-loop thread in a blocking call (0: none)
    neo4j_driver,                   \* module-level driver variable
    request,                        \* the line main() reads from standard input
    main_pc,                        \* position of main()
    payloads,                       \* the JSON lines main() printed so far
    \* ---- format_query_with_context as a function (specification SpecFormat)
    args,                           \* its arguments
    ret,                            \* its return value
    fpc,                            \* "call" before it ran, "returned" after
    \* ---- extract_query_elements as a function (specification SpecExtract)
    full_response,                  \* the accumulated text of the model's response
    elements,                       \* what the call returned, or the exception it raised
    epc,                            \* "call" before it ran, "returned" after
    relevant_concepts,              \* the concept nodes the relationship lookup collected
    \* ---- the date-range mode of ask_main, two runs on one query (SpecMode)
    query_text,                     \* the raw query text, as a sequence of words
    time_reference,                 \* per run: time_reference of the extractor's object
    query_date_range,               \* per run: the mode ask_main passes to the ranker
    \* ---- get_relevant_events_and_claims as a function (specification SpecRank)
    rank_args,                      \* the graph's nodes and the call's parameters
    ranked,                         \* per date-range mode: what the call returned
    \* ---- the accumulation loop of extract_query_elements (specification SpecLoop)
    elapsed,                        \* time.time() - start_time, in seconds
    stream,                         \* the provider's stream: "open", "ended", "failed"
    received,                       \* number of increments added to full_response
    complete,                       \* full_response is a complete JSON object
    lpc                             \* position of the loop

vars == <<llm_response, max_chain_of_thought_questions, mainPc, ideal_mix,
          chain_of_thought_questions, retrieved, pc, failedAt, result, gather,
          order, cot_responses, formatted_query, out, running, neo4j_driver,
          request, main_pc, payloads,
          args, ret, fpc, full_response, elements, epc, relevant_concepts, query_text,
          time_reference, query_date_range, rank_args, ranked,
          elapsed, stream, received, complete, lpc>>

mainVars == <<llm_response, max_chain_of_thought_questions, mainPc, ideal_mix,
              chain_of_thought_questions, retrieved, pc, failedAt, result, gather,
              order, cot_responses, formatted_query, out, running, neo4j_driver,
              request, main_pc, payloads>>

formatVars == <<args, ret, fpc>>

extractVars == <<full_response, elements, epc, relevant_concepts>>

modeVars == <<query_text, time_reference, query_date_range>>

rankVars == <<rank_args, ranked>>

loopVars == <<elapsed, stream, received, complete, lpc>>

\* the variables of the function specifications other than SpecFormat
auxVars == <<extractVars, modeVars, rankVars, loopVars>>

(***************************************************************************)
(* Bounds of the model.                                                    *)
(***************************************************************************)
MaxQuestions == 2   \* most chain-of-thought answers given to the assembler
MaxCap == 4         \* largest max_chain_of_thought_questions tried
MaxReturned == 4    \* most sub-questions the extractor's model returns
MaxEvents == 2      \* longest list of events given to the assembler
MaxItems == 1       \* longest list of ideas, of chunks and of relationships
MaxTurns == 3       \* longest conversation history
MaxOut == 2         \* most increments of the main generation call

None == "None"      \* Python's None, and a key that is absent

\* extract_query_elements not called
ExtractIdle ==
    /\ full_response = None
    /\ elements = None
    /\ epc = "idle"
    /\ relevant_concepts = None

\* no run of ask_main classifies a query
ModeIdle ==
    /\ query_text = <<>>
    /\ time_reference = <<>>
    /\ query_date_range = <<>>

\* get_relevant_events_and_claims not called
RankIdle ==
    /\ rank_args = None
    /\ ranked = None

\* the accumulation loop not entered
LoopIdle ==
    /\ elapsed = 0
    /\ stream = "idle"
    /\ received = 0
    /\ complete = FALSE
    /\ lpc = "idle"

(***************************************************************************)
(* Text.                                                                   *)
(***************************************************************************)
Txt(sec, id, n) == IF n = 0 THEN <<>> ELSE << <<sec, id, n>> >>

Lit(sec, n) == Txt(sec, 0, n)

RECURSIVE Concat(_)
Concat(parts) ==
    IF parts = <<>> THEN <<>> ELSE Head(parts) \o Concat(Tail(parts))

\* Python's len(s)
RECURSIVE TextLen(_)
TextLen(s) == IF s = <<>> THEN 0 ELSE Head(s)[3] + TextLen(Tail(s))

\* Python's s[:n] for n >= 0
RECURSIVE Prefix(_, _)
Prefix(s, n) ==
    IF s = <<>> \/ n = 0 THEN <<>>
    ELSE IF Head(s)[3] <= n
         THEN <<Head(s)>> \o Prefix(Tail(s), n - Head(s)[3])
         ELSE << <<Head(s)[1], Head(s)[2], n>> >>

\* Python's s[:-1]
ButLast(s) == IF s = <<>> THEN <<>> ELSE SubSeq(s, 1, Len(s) - 1)

\* the sequences over S of length at most n
SeqsUpTo(S, n) == UNION {[1..k -> S] : k \in 0..n}

(***************************************************************************)
(* Data given to the assembler.  An optional text is <<>> when the key is  *)
(* absent and <<n>> when it is a text of n characters.                     *)
(***************************************************************************)
EmotionOrder == <<"fear", "joy">>   \* the emotion labels of the model, sorted

EmotionLen(label) == CASE label = "fear" -> 4 [] label = "joy" -> 3 [] OTHER -> 0

EventKinds ==
    { [name |-> <<2>>, description |-> <<3>>, emotion |-> "joy", start_date |-> "date"],
      [name |-> <<>>, description |-> <<>>, emotion |-> None, start_date |-> None] }

IdeaKinds ==
    { [content |-> <<3>>, source |-> <<2>>],
      [content |-> <<>>, source |-> <<>>] }

ChunkKinds == { [book |-> 2, content |-> 5] }

RelationshipKinds == { [source |-> 2, type |-> 3, target |-> 2] }

\* a stored history of n turns; turn k has a user text of k characters and an
\* ai text of k - 1 characters
HistoryOf(n) == [k \in 1..n |-> [user |-> k, ai |-> k - 1]]

\* the budgets tried; 100000 is the default of format_query_with_context
MaxContextLengths == {0, 120, 215, 100000}

Marker == Lit("trunc", 14)          \* "...[truncated]"

(***************************************************************************)
(* format_query_with_context, section by section.                          *)
(***************************************************************************)
\* "{source} {type} {target}.\n" per relationship, or the fixed sentence
ConceptMapText(concept_relationships) ==
    IF concept_relationships # <<>>
    THEN Concat([k \in 1..Len(concept_relationships) |->
            Txt("map", k, concept_relationships[k].source) \o Lit("map", 1)
            \o Txt("map", k, concept_relationships[k].type) \o Lit("map", 1)
            \o Txt("map", k, concept_relationships[k].target) \o Lit("map", 2)])
    ELSE Lit("map", 41)

\* emotion_groups: the truthy emotions of the events, as a set
EmotionGroups(events) ==
    {events[k].emotion : k \in {j \in 1..Len(events) :
                                    events[j].emotion \notin {None, ""}}}

\* ", ".join(sorted(emotion_groups)) + ".\n\n"
EmotionText(events) ==
    LET labels == SelectSeq(EmotionOrder, LAMBDA l : l \in EmotionGroups(events))
    IN  Concat([k \in 1..Len(labels) |->
            (IF k > 1 THEN Lit("emo", 2) ELSE <<>>)
            \o Txt("emo", k, EmotionLen(labels[k]))])
        \o Lit("emo", 3)

\* one event: "{name}: {description}\n", the fields that are not None, "\n"
EventText(event, k) ==
    (IF event.name # <<>> THEN Txt("mem", k, event.name[1]) ELSE Lit("mem", 13))
    \o Lit("mem", 2)
    \o (IF event.description # <<>> THEN Txt("mem", k, event.description[1])
        ELSE Lit("mem", 15))
    \o Lit("mem", 1)
    \o (IF event.emotion # None
        THEN Lit("mem", 11) \o Txt("mem", k, EmotionLen(event.emotion)) \o Lit("mem", 1)
        ELSE <<>>)
    \o (IF event.start_date # None
        THEN Lit("mem", 14) \o Txt("mem", k, 10) \o Lit("mem", 1)
        ELSE <<>>)
    \o Lit("mem", 1)

\* one idea: "{content}\n", "  source: {source}\n" when there is one, "\n"
IdeaText(idea, k) ==
    (IF idea.content # <<>> THEN Txt("ideas", k, idea.content[1]) ELSE Lit("ideas", 12))
    \o Lit("ideas", 1)
    \o (IF idea.source # <<>>
        THEN Lit("ideas", 10) \o Txt("ideas", k, idea.source[1]) \o Lit("ideas", 1)
        ELSE <<>>)
    \o Lit("ideas", 1)

\* one excerpt: "From {book_name}:\n\n" and "{content}\n\n"
ChunkText(chunk, k) ==
    Lit("books", 5) \o Txt("books", k, chunk.book) \o Lit("books", 3)
    \o Txt("books", k, chunk.content) \o Lit("books", 2)

\* (mutant) the claims section written before the events section
AssembleContextIdeasFirst(events, ideas, relevant_chunks, responses, concept_relationships) ==
    Lit("intro", 30)
    \o Lit("map", 17) \o ConceptMapText(concept_relationships)
    \o Lit("emo", 22) \o EmotionText(events)
    \o Lit("ideas", 9)
    \o Concat([k \in 1..Len(ideas) |-> IdeaText(ideas[k], k)])
    \o Lit("mem", 10)
    \o Concat([k \in 1..Len(events) |-> EventText(events[k], k)])
    \o Lit("books", 39)
    \o Concat([k \in 1..Len(relevant_chunks) |-> ChunkText(relevant_chunks[k], k)])
    \o Lit("cot", 30)
    \o Concat([k \in 1..Len(responses) |-> responses[k] \o Lit("cot", 1)])

\* the context before truncation (ask.py 527-584)
AssembleContext(events, ideas, relevant_chunks, responses, concept_relationships) ==
    Lit("intro", 30)
    \o Lit("map", 17) \o ConceptMapText(concept_relationships)
    \o Lit("emo", 22) \o EmotionText(events)
    \o Lit("mem", 10)
    \o Concat([k \in 1..Len(events) |-> EventText(events[k], k)])
    \o Lit("ideas", 9)
    \o Concat([k \in 1..Len(ideas) |-> IdeaText(ideas[k], k)])
    \o Lit("books", 39)
    \o Concat([k \in 1..Len(relevant_chunks) |-> ChunkText(relevant_chunks[k], k)])
    \o Lit("cot", 30)
    \o Concat([k \in 1..Len(responses) |-> responses[k] \o Lit("cot", 1)])

\* (mutant) the cut taken one character too late
TruncateContextOffByOne(context, max_context_length) ==
    IF TextLen(context) > max_context_length
    THEN Prefix(context, max_context_length + 1) \o Marker
    ELSE context

\* (mutant) the cut without the marker
TruncateContextNoMarker(context, max_context_length) ==
    IF TextLen(context) > max_context_length
    THEN Prefix(context, max_context_length)
    ELSE context

\* ask.py 586-589
TruncateContext(context, max_context_length) ==
    IF TextLen(context) > max_context_length
    THEN Prefix(context, max_context_length) \o Marker
    ELSE context

\* (mutant) the first turn dropped instead of the last
ConversationContextDropFirst(conversation_history) ==
    LET turns == IF conversation_history = <<>> THEN <<>> ELSE Tail(conversation_history)
    IN  Concat([k \in 1..Len(turns) |->
            (IF k > 1 THEN Lit("hist", 1) ELSE <<>>)
            \o Txt("hist", 2 * k - 1, 6 + turns[k].user)
            \o Lit("hist", 1)
            \o Txt("hist", 2 * k, 4 + turns[k].ai)])

\* ask.py 591: every turn but the last, "User: ..\nAI: .." joined by "\n"
ConversationContext(conversation_history) ==
    LET turns == ButLast(conversation_history)
    IN  Concat([k \in 1..Len(turns) |->
            (IF k > 1 THEN Lit("hist", 1) ELSE <<>>)
            \o Txt("hist", 2 * k - 1, 6 + turns[k].user)
            \o Lit("hist", 1)
            \o Txt("hist", 2 * k, 4 + turns[k].ai)])

\* ask.py 593-603: the f-string around context, history and query
FormattedQuery(context, conversation_context, query) ==
    Lit("frame", 6) \o context
    \o Lit("hist", 37) \o conversation_context
    \o Lit("query", 12) \o Txt("query", 1, query)
    \o Lit("cue", 15)

\* format_query_with_context, given what the await on the fan-out returned
FormatQueryWithContext(query, conversation_history, events, ideas, relevant_chunks, responses, concept_relationships, max_context_length) ==
    FormattedQuery(
        TruncateContext(
            AssembleContext(events, ideas, relevant_chunks, responses,
                            concept_relationships),
            max_context_length),
        ConversationContext(conversation_history),
        query)

\* the value process_chain_of_thought_question returns for sub-question q:
\* "\n## {question}'\n\n{response}\n"; sec tells an answer from the error text
CotText(sec, q, question, response) == Txt(sec, q, 4 + question + 3 + response + 1)

(***************************************************************************)
(* Specification SpecFormat: format_query_with_context applied to every    *)
(* argument list within the bounds.  responses is what the await on        *)
(* process_all_chain_of_thought_questions returned.                        *)
(***************************************************************************)
FormatArgs ==
    [query : {4},
     conversation_history : {HistoryOf(n) : n \in 0..MaxTurns},
     events : SeqsUpTo(EventKinds, MaxEvents),
     ideas : SeqsUpTo(IdeaKinds, MaxItems),
     relevant_chunks : SeqsUpTo(ChunkKinds, MaxItems),
     responses : {[k \in 1..n |-> CotText("cot", k, k, 2)] : n \in 0..MaxQuestions},
     concept_relationships : SeqsUpTo(RelationshipKinds, MaxItems),
     max_context_length : MaxContextLengths]

NoArgs == [query |-> 0]

MainInit ==
    /\ llm_response = None
    /\ max_chain_of_thought_questions = 0
    /\ mainPc = "idle"
    /\ ideal_mix = None
    /\ chain_of_thought_questions = <<>>
    /\ retrieved = None
    /\ pc = <<>>
    /\ failedAt = <<>>
    /\ result = <<>>
    /\ gather = "idle"
    /\ order = <<>>
    /\ cot_responses = <<>>
    /\ formatted_query = <<>>
    /\ out = <<>>
    /\ running = 0
    /\ neo4j_driver = None
    /\ request = None
    /\ main_pc = "idle"
    /\ payloads = <<>>

\* format_query_with_context not called
FormatIdle ==
    /\ args = NoArgs
    /\ ret = <<>>
    /\ fpc = "idle"

InitFormat ==
    /\ MainInit
    /\ ExtractIdle
    /\ ModeIdle
    /\ RankIdle
    /\ LoopIdle
    /\ args \in FormatArgs
    /\ ret = <<>>
    /\ fpc = "call"

\* the call and its return
FormatCall ==
    /\ fpc = "call"
    /\ ret' = FormatQueryWithContext(args.query, args.conversation_history,
                  args.events, args.ideas, args.relevant_chunks, args.responses,
                  args.concept_relationships, args.max_context_length)
    /\ fpc' = "returned"
    /\ UNCHANGED <<args, mainVars, auxVars>>

NextFormat == FormatCall

SpecFormat == InitFormat /\ [][NextFormat]_vars

(***************************************************************************)
(* Properties of format_query_with_context (specification SpecFormat).     *)
(***************************************************************************)
\* position of a section in the order the specification gives; the marker
\* closes the context, the frame opens the prompt
Rank(sec) ==
    CASE sec \in {"frame", "intro"} -> 0
      [] sec = "map" -> 1
      [] sec = "emo" -> 2
      [] sec = "mem" -> 3
      [] sec = "ideas" -> 4
      [] sec = "books" -> 5
      [] sec \in {"cot", "cot_err", "trunc"} -> 6
      [] sec = "hist" -> 7
      [] sec = "query" -> 8
      [] sec = "cue" -> 9

ContextSections == {"intro", "map", "emo", "mem", "ideas", "books", "cot", "cot_err", "trunc"}

\* the runs of a prompt written from the variable context
ContextPart(prompt) == SelectSeq(prompt, LAMBDA r : r[1] \in ContextSections)

\* the context the call assembled, before the budget was applied
ArgsContext ==
    AssembleContext(args.events, args.ideas, args.relevant_chunks, args.responses,
                    args.concept_relationships)

ArgsTruncated == TextLen(ArgsContext) > args.max_context_length

\* the ids of the history lines of a prompt, in order
HistLines(prompt) ==
    LET lines == SelectSeq(prompt, LAMBDA r : r[1] = "hist" /\ r[2] > 0)
    IN  [k \in 1..Len(lines) |-> lines[k][2]]

C8_SectionOrder ==
    fpc = "returned" =>
        /\ \A i \in 1..(Len(ret) - 1) : Rank(ret[i][1]) <= Rank(ret[i + 1][1])
        /\ ~ArgsTruncated => \A s \in 1..8 : \E i \in DOMAIN ret : Rank(ret[i][1]) = s

C8_Witness ==
    /\ fpc = "returned"
    /\ ~ArgsTruncated
    /\ Len(args.events) > 1 /\ args.ideas # <<>> /\ args.relevant_chunks # <<>>
    /\ Len(args.responses) > 1 /\ args.concept_relationships # <<>>
    /\ Len(args.conversation_history) > 1

\* C9 (as claimed): every loaded turn is rendered, in order, as a "User:" line
\* followed by an "AI:" line.
C9_EveryTurnRendered ==
    fpc = "returned" =>
        HistLines(ret) = [k \in 1..(2 * Len(args.conversation_history)) |-> k]

\* C9 (amended): every loaded turn except the last one is rendered, in order,
\* as a "User:" line followed by an "AI:" line, each with its own text.
C9_AllButLastTurnRendered ==
    fpc = "returned" =>
        LET history == args.conversation_history
            n == IF history = <<>> THEN 0 ELSE Len(history) - 1
            lines == SelectSeq(ret, LAMBDA r : r[1] = "hist" /\ r[2] > 0)
        IN  /\ HistLines(ret) = [k \in 1..(2 * n) |-> k]
            /\ \A k \in 1..n :
                /\ lines[2 * k - 1][3] = 6 + history[k].user
                /\ lines[2 * k][3] = 4 + history[k].ai

C9_Witness ==
    /\ fpc = "returned"
    /\ Len(args.conversation_history) >= 3
    /\ Len(HistLines(ret)) = 4

(***************************************************************************)
(* ask_main: query decomposition and caps.                                 *)
(***************************************************************************)
\* Python's s[:n] on a list, n >= 0
Take(s, n) == SubSeq(s, 1, IF n < Len(s) THEN n ELSE Len(s))

\* What the extractor's model call returned: text that does not parse as JSON,
\* or an object with nq sub-questions (numbered in the order returned).
LlmResponses ==
    {[parsed |-> FALSE, nq |-> 0]} \cup {[parsed |-> TRUE, nq |-> n] : n \in 0..MaxReturned}

\* the same without the extractor's own cut of the sub-questions
ExtractQueryElementsNoCut(response) ==
    IF response.parsed
    THEN [chain_of_thought_questions |-> [k \in 1..response.nq |-> k],
          ideal_mix |-> <<>>]
    ELSE [chain_of_thought_questions |-> <<>>,
          ideal_mix |-> << [events |-> 0, claims_ideas |-> 0, chunks |-> 0] >>]

\* extract_query_elements from the parse on: the parsed object with its
\* sub-questions cut to 3 and no ideal_mix key, or the all-defaults object
ExtractQueryElements(response) ==
    IF response.parsed
    THEN [chain_of_thought_questions |-> Take([k \in 1..response.nq |-> k], 3),
          ideal_mix |-> <<>>]
    ELSE [chain_of_thought_questions |-> <<>>,
          ideal_mix |-> << [events |-> 0, claims_ideas |-> 0, chunks |-> 0] >>]

\* query_elements.get("ideal_mix", {}) completed from default_ideal_mix
IdealMix(query_elements) ==
    IF query_elements.ideal_mix # <<>>
    THEN query_elements.ideal_mix[1]
    ELSE [events |-> 27, claims_ideas |-> 27, chunks |-> 3]

\* what the stores hold for the main query, best first
PoolEvents == << [name |-> <<2>>, description |-> <<3>>, emotion |-> "joy", start_date |-> "date"] >>

PoolIdeas == << [content |-> <<3>>, source |-> <<2>>] >>

PoolChunks == << [book |-> 2, content |-> 5] >>

PoolRelationships == << [source |-> 2, type |-> 3, target |-> 2] >>

\* the main retrieval under the caps of ideal_mix
Retrieve(mix) ==
    [events |-> Take(PoolEvents, mix.events),
     ideas |-> Take(PoolIdeas, mix.claims_ideas),
     chunks |-> Take(PoolChunks, mix.chunks),
     concept_relationships |-> PoolRelationships]

Tasks == DOMAIN pc

\* The line on standard input: text that is not JSON, JSON that is not an
\* object, or an object that holds or lacks each of the two required keys.
Requests ==
    [kind : {"text", "array"}, question : {FALSE}, conversationId : {FALSE}] \cup
    [kind : {"object"}, question : BOOLEAN, conversationId : BOOLEAN]

\* the line print(json.dumps({'chunk': chunk})) writes
Chunk(chunk) == [key |-> "chunk", value |-> chunk]

\* the line print(json.dumps({'error': message})) writes
Error(message) == [key |-> "error", value |-> message]

\* ask.py 761-763 with a conversationId that may be missing
RequestErrorConversationOptional(line) ==
    IF line.kind = "text" THEN <<"Invalid input format">>
    ELSE IF line.kind # "object" THEN <<"An unexpected error occurred">>
    ELSE IF ~line.question THEN <<"Missing required input: 'question'">>
    ELSE <<>>

\* ask.py 761-763 and the except clauses 770-778: the message of the error
\* payload the request leads to, <<>> when both keys are read
RequestError(line) ==
    IF line.kind = "text" THEN <<"Invalid input format">>
    ELSE IF line.kind # "object" THEN <<"An unexpected error occurred">>
    ELSE IF ~line.question THEN <<"Missing required input: 'question'">>
    ELSE IF ~line.conversationId THEN <<"Missing required input: 'conversationId'">>
    ELSE <<>>

Init ==
    /\ llm_response \in LlmResponses
    /\ max_chain_of_thought_questions \in 0..MaxCap
    /\ mainPc = "extract"
    /\ ideal_mix = None
    /\ chain_of_thought_questions = <<>>
    /\ retrieved = None
    /\ pc = <<>>
    /\ failedAt = <<>>
    /\ result = <<>>
    /\ gather = "idle"
    /\ order = <<>>
    /\ cot_responses = <<>>
    /\ formatted_query = <<>>
    /\ out = <<>>
    /\ running = 0
    /\ neo4j_driver = None
    /\ request \in Requests
    /\ main_pc = "read"
    /\ payloads = <<>>
    /\ FormatIdle
    /\ ExtractIdle
    /\ ModeIdle
    /\ RankIdle
    /\ LoopIdle

\* ask.py 759-767: main() reads the request; it prints an error payload and
\* returns, or it loads the history and starts to iterate ask_main
ReadRequest ==
    /\ main_pc = "read"
    /\ IF RequestError(request) # <<>>
       THEN /\ payloads' = <<Error(RequestError(request)[1])>>
            /\ main_pc' = "input_error"
       ELSE /\ payloads' = payloads
            /\ main_pc' = "ask_main"
    /\ UNCHANGED <<llm_response, max_chain_of_thought_questions, mainPc, ideal_mix,
                   chain_of_thought_questions, retrieved, pc, failedAt, result,
                   gather, order, cot_responses, formatted_query, out, running,
                   neo4j_driver, request, formatVars, auxVars>>

\* ask.py 670-683: extraction, the cut to max_chain_of_thought_questions, the caps
Extract ==
    /\ main_pc = "ask_main"
    /\ mainPc = "extract"
    /\ LET query_elements == ExtractQueryElements(llm_response)
       IN  /\ chain_of_thought_questions' =
                Take(query_elements.chain_of_thought_questions,
                     max_chain_of_thought_questions)
           /\ ideal_mix' = IdealMix(query_elements)
    /\ mainPc' = "retrieve"
    /\ UNCHANGED <<llm_response, max_chain_of_thought_questions, retrieved, pc,
                   failedAt, result, gather, order, cot_responses, formatted_query,
                   out, running, neo4j_driver, payloads, request, main_pc, formatVars, auxVars>>

\* asyncio.run after main() returned: the tasks still pending are cancelled
CancelPending(p) ==
    [i \in DOMAIN p |-> IF p[i] \in {"done", "failed"} THEN p[i] ELSE "cancelled"]

\* ask.py 736-741: the except clause yields the generic message, then the
\* finally clause closes the driver (an await when there is a driver)
RaiseInMain(driver) ==
    /\ out' = Append(out, "generic_error")
    /\ payloads' = Append(payloads, Chunk("generic_error"))
    /\ IF driver # None
       THEN /\ neo4j_driver' = "closing"
            /\ mainPc' = "closing"
            /\ pc' = pc
       ELSE /\ neo4j_driver' = None
            /\ mainPc' = "done"
            /\ pc' = pc

\* ask.py 739-741 on the normal path
FinallyInMain ==
    IF neo4j_driver # None
    THEN /\ neo4j_driver' = "closing"
         /\ mainPc' = "closing"
         /\ pc' = pc
    ELSE /\ neo4j_driver' = None
         /\ mainPc' = "done"
         /\ pc' = pc

\* ask.py 696-713: embedding of the query, driver, graph reads, excerpts
MainRetrieve ==
    /\ mainPc = "retrieve"
    /\ neo4j_driver' = "open"
    /\ retrieved' = Retrieve(ideal_mix)
    /\ mainPc' = "format"
    /\ UNCHANGED <<llm_response, max_chain_of_thought_questions, ideal_mix,
                   chain_of_thought_questions, pc, failedAt, result, gather, order,
                   cot_responses, formatted_query, out, running, payloads, request, main_pc, formatVars, auxVars>>

\* the same with a provider failing: the embedding call (no driver yet) or a
\* graph read (driver open)
MainRetrieveFail ==
    /\ mainPc = "retrieve"
    /\ \E driver \in {None, "open"} : RaiseInMain(driver)
    /\ UNCHANGED <<llm_response, max_chain_of_thought_questions, ideal_mix,
                   chain_of_thought_questions, retrieved, failedAt, result, gather,
                   order, cot_responses, formatted_query, running, request, main_pc, formatVars, auxVars>>

(***************************************************************************)
(* The fan-out: process_all_chain_of_thought_questions (asyncio.gather     *)
(* with its default return_exceptions=False) and its tasks.  The event     *)
(* loop has one thread: a task runs from one await that suspends to the    *)
(* next.  The embedding call runs in an executor and the graph read is     *)
(* asynchronous, so both suspend; the generation call is the synchronous   *)
(* client iterated inside generate_text (api_wrapper.py 38-47), so the     *)
(* task keeps the thread for the whole call: running is that task.         *)
(***************************************************************************)
\* (mutant) the results in the order the children finished
GatherResultsByCompletion(results, completion) ==
    [k \in DOMAIN completion |-> results[completion[k]]]

\* the list gather resolves to: the children's results in the order of the
\* awaitables it was given
GatherResults(results, completion) == [i \in DOMAIN results |-> results[i]]

\* the state of gather's future after a child finished
GatherAfter(p, raised) ==
    IF gather # "waiting" THEN gather
    ELSE IF raised THEN "raised"
    ELSE IF \A i \in DOMAIN p : p[i] = "done" THEN "returned"
    ELSE "waiting"

\* the prompt format_query_with_context returns to ask_main (default budget)
MainPrompt(responses) ==
    FormatQueryWithContext(4, HistoryOf(2), retrieved.events, retrieved.ideas,
                           retrieved.chunks, responses,
                           retrieved.concept_relationships, 100000)

\* ask.py 720, 576-578 with sub-questions: gather wraps each coroutine in a
\* task and ask_main suspends on its future
Dispatch ==
    /\ mainPc = "format"
    /\ chain_of_thought_questions # <<>>
    /\ pc' = [i \in DOMAIN chain_of_thought_questions |-> "created"]
    /\ failedAt' = [i \in DOMAIN chain_of_thought_questions |-> None]
    /\ result' = [i \in DOMAIN chain_of_thought_questions |-> <<>>]
    /\ gather' = "waiting"
    /\ mainPc' = "gather"
    /\ UNCHANGED <<llm_response, max_chain_of_thought_questions, ideal_mix,
                   chain_of_thought_questions, retrieved, order, cot_responses,
                   formatted_query, out, running, neo4j_driver, payloads, request, main_pc, formatVars, auxVars>>

\* the same without sub-questions: gather() of nothing is already resolved to
\* [], and the prompt is returned without suspending
DispatchNone ==
    /\ mainPc = "format"
    /\ chain_of_thought_questions = <<>>
    /\ gather' = "returned"
    /\ cot_responses' = <<>>
    /\ formatted_query' = MainPrompt(<<>>)
    /\ mainPc' = "generate"
    /\ UNCHANGED <<llm_response, max_chain_of_thought_questions, ideal_mix,
                   chain_of_thought_questions, retrieved, pc, failedAt, result,
                   order, out, running, neo4j_driver, payloads, request, main_pc, formatVars, auxVars>>

\* ask.py 459-473: a task runs up to its await on the embedding call; the
\* loop starts the tasks in the order gather created them
TaskStart(i) ==
    /\ pc[i] = "created"
    /\ running = 0
    /\ \A j \in 1..(i - 1) : pc[j] # "created"
    /\ pc' = [pc EXCEPT ![i] = "embed"]
    /\ UNCHANGED <<llm_response, max_chain_of_thought_questions, mainPc, ideal_mix,
                   chain_of_thought_questions, retrieved, failedAt, result, gather,
                   order, cot_responses, formatted_query, out, running,
                   neo4j_driver, payloads, request, main_pc, formatVars, auxVars>>

\* ask.py 473-476: the embedding arrived; get_neo4j_driver, then the await on
\* the graph read
EmbedDone(i) ==
    /\ pc[i] = "embed"
    /\ running = 0
    /\ neo4j_driver' = IF neo4j_driver = None THEN "open" ELSE neo4j_driver
    /\ pc' = [pc EXCEPT ![i] = "retrieve"]
    /\ UNCHANGED <<llm_response, max_chain_of_thought_questions, mainPc, ideal_mix,
                   chain_of_thought_questions, retrieved, failedAt, result, gather,
                   order, cot_responses, formatted_query, out, running, payloads, request, main_pc, formatVars, auxVars>>

\* a provider call awaited by task i (step "embed" or "retrieve") raised:
\* nothing in process_chain_of_thought_question catches it, the task ends with
\* the exception and gather's future takes it
TaskRaise(i, step) ==
    /\ pc[i] = step
    /\ step \in {"embed", "retrieve"}
    /\ running = 0
    /\ pc' = [pc EXCEPT ![i] = "failed"]
    /\ failedAt' = [failedAt EXCEPT ![i] = step]
    /\ order' = Append(order, i)
    /\ gather' = GatherAfter(pc', TRUE)
    /\ UNCHANGED <<llm_response, max_chain_of_thought_questions, mainPc, ideal_mix,
                   chain_of_thought_questions, retrieved, result, cot_responses,
                   formatted_query, out, running, neo4j_driver, payloads, request, main_pc, formatVars, auxVars>>

EmbedFail(i) == TaskRaise(i, "embed")

RetrieveFail(i) == TaskRaise(i, "retrieve")

\* ask.py 476-512: the graph read returned; the task builds its context and
\* enters the generation call, which does not suspend
RetrieveDone(i) ==
    /\ pc[i] = "retrieve"
    /\ running = 0
    /\ pc' = [pc EXCEPT ![i] = "generate"]
    /\ running' = i
    /\ UNCHANGED <<llm_response, max_chain_of_thought_questions, mainPc, ideal_mix,
                   chain_of_thought_questions, retrieved, failedAt, result, gather,
                   order, cot_responses, formatted_query, out, neo4j_driver,
                   payloads, request, main_pc, formatVars, auxVars>>

\* task i returns text: its answer, or what call_llm yields when the provider
\* raised (ask.py 101-105), a sentence of 66 characters
TaskReturn(i, sec, response) ==
    /\ pc[i] = "generate"
    /\ running = i
    /\ result' = [result EXCEPT ![i] =
                    CotText(sec, chain_of_thought_questions[i],
                            chain_of_thought_questions[i], response)]
    /\ pc' = [pc EXCEPT ![i] = "done"]
    /\ running' = 0
    /\ order' = Append(order, i)
    /\ gather' = GatherAfter(pc', FALSE)

\* ask.py 512-516: the stream of the generation call ended
GenerateEnd(i) ==
    /\ TaskReturn(i, "cot", 2)
    /\ UNCHANGED <<llm_response, max_chain_of_thought_questions, mainPc, ideal_mix,
                   chain_of_thought_questions, retrieved, failedAt, cot_responses,
                   formatted_query, out, neo4j_driver, payloads, request, main_pc, formatVars, auxVars>>

\* the generation call raised: call_llm catches it and yields its message
GenerateFail(i) ==
    /\ TaskReturn(i, "cot_err", 66)
    /\ failedAt' = [failedAt EXCEPT ![i] = "generate"]
    /\ UNCHANGED <<llm_response, max_chain_of_thought_questions, mainPc, ideal_mix,
                   chain_of_thought_questions, retrieved, cot_responses,
                   formatted_query, out, neo4j_driver, payloads, request, main_pc, formatVars, auxVars>>

\* ask.py 523, 578-606: the await on gather returns the list; the prompt is
\* completed and returned to ask_main, which enters the main generation call
GatherReturn ==
    /\ mainPc = "gather"
    /\ gather = "returned"
    /\ running = 0
    /\ cot_responses' = GatherResults(result, order)
    /\ formatted_query' = MainPrompt(cot_responses')
    /\ mainPc' = "generate"
    /\ UNCHANGED <<llm_response, max_chain_of_thought_questions, ideal_mix,
                   chain_of_thought_questions, retrieved, pc, failedAt, result,
                   gather, order, out, running, neo4j_driver, payloads, request, main_pc, formatVars, auxVars>>

\* the await on gather raises the first exception of a child; it goes through
\* format_query_with_context to the except clause of ask_main
GatherRaise ==
    /\ mainPc = "gather"
    /\ gather = "raised"
    /\ running = 0
    /\ RaiseInMain(neo4j_driver)
    /\ UNCHANGED <<llm_response, max_chain_of_thought_questions, ideal_mix,
                   chain_of_thought_questions, retrieved, failedAt, result, gather,
                   order, cot_responses, formatted_query, running, request, main_pc, formatVars, auxVars>>

\* ask.py 733-734: one increment of the main generation call is yielded
MainGenChunk ==
    /\ mainPc = "generate"
    /\ Len(out) < MaxOut
    /\ out' = Append(out, "answer")
    /\ payloads' = Append(payloads, Chunk("answer"))
    /\ UNCHANGED <<llm_response, max_chain_of_thought_questions, mainPc, ideal_mix,
                   chain_of_thought_questions, retrieved, pc, failedAt, result,
                   gather, order, cot_responses, formatted_query, running,
                   neo4j_driver, request, main_pc, formatVars, auxVars>>

\* the stream of the main generation call ended
MainGenEnd ==
    /\ mainPc = "generate"
    /\ FinallyInMain
    /\ UNCHANGED <<llm_response, max_chain_of_thought_questions, ideal_mix,
                   chain_of_thought_questions, retrieved, failedAt, result, gather,
                   order, cot_responses, formatted_query, out, running, payloads, request, main_pc, formatVars, auxVars>>

\* the main generation call raised: call_llm yields its message (ask.py 105)
MainGenFail ==
    /\ mainPc = "generate"
    /\ out' = Append(out, "llm_fallback")
    /\ payloads' = Append(payloads, Chunk("llm_fallback"))
    /\ FinallyInMain
    /\ UNCHANGED <<llm_response, max_chain_of_thought_questions, ideal_mix,
                   chain_of_thought_questions, retrieved, failedAt, result, gather,
                   order, cot_responses, formatted_query, running, request, main_pc, formatVars, auxVars>>

\* ask.py 79-83: the driver closed; the variable is unset and ask_main ends
CloseDone ==
    /\ mainPc = "closing"
    /\ running = 0
    /\ neo4j_driver' = None
    /\ mainPc' = "done"
    /\ pc' = pc
    /\ UNCHANGED <<llm_response, max_chain_of_thought_questions, ideal_mix,
                   chain_of_thought_questions, retrieved, failedAt, result, gather,
                   order, cot_responses, formatted_query, out, running, payloads, request, main_pc, formatVars, auxVars>>

\* ask.py 82: neo4j_driver.close() raised; the variable keeps the driver, the
\* exception leaves the finally clause and ask_main, and main() prints the
\* payload of its last except clause (776-778)
CloseFail ==
    /\ mainPc = "closing"
    /\ running = 0
    /\ neo4j_driver' = "close_failed"
    /\ mainPc' = "done"
    /\ pc' = pc
    /\ payloads' = Append(payloads, Error("An unexpected error occurred"))
    /\ UNCHANGED <<llm_response, max_chain_of_thought_questions, ideal_mix,
                   chain_of_thought_questions, retrieved, failedAt, result, gather,
                   order, cot_responses, formatted_query, out, running, request,
                   main_pc, formatVars, auxVars>>

\* ask.py 780-781: main() returned and asyncio.run cancels the tasks that
\* are still pending.  The loop stops one iteration after main() returned:
\* until then a pending task whose awaited call completed still runs.
Shutdown ==
    /\ main_pc = "ask_main"
    /\ mainPc = "done"
    /\ running = 0
    /\ main_pc' = "exited"
    /\ pc' = CancelPending(pc)
    /\ UNCHANGED <<llm_response, max_chain_of_thought_questions, mainPc, ideal_mix,
                   chain_of_thought_questions, retrieved, failedAt, result, gather,
                   order, cot_responses, formatted_query, out, running,
                   neo4j_driver, request, payloads, formatVars, auxVars>>

\* a step of sub-question task i
TaskStep(i) ==
    \/ TaskStart(i)
    \/ EmbedDone(i)
    \/ EmbedFail(i)
    \/ RetrieveDone(i)
    \/ RetrieveFail(i)
    \/ GenerateEnd(i)
    \/ GenerateFail(i)

Next ==
    \/ ReadRequest
    \/ Extract
    \/ MainRetrieve
    \/ MainRetrieveFail
    \/ Dispatch
    \/ DispatchNone
    \/ \E i \in Tasks : TaskStart(i)
    \/ \E i \in Tasks : EmbedDone(i)
    \/ \E i \in Tasks : EmbedFail(i)
    \/ \E i \in Tasks : RetrieveDone(i)
    \/ \E i \in Tasks : RetrieveFail(i)
    \/ \E i \in Tasks : GenerateEnd(i)
    \/ \E i \in Tasks : GenerateFail(i)
    \/ GatherReturn
    \/ GatherRaise
    \/ MainGenChunk
    \/ MainGenEnd
    \/ MainGenFail
    \/ CloseDone
    \/ CloseFail
    \/ Shutdown

Spec == Init /\ [][Next]_vars

(***************************************************************************)
(* Properties of the fan-out and of ask_main (specification Spec).         *)
(***************************************************************************)
\* ask_main got control back from process_all_chain_of_thought_questions
FanOutLeft == mainPc \in {"generate", "closing", "done"} /\ Tasks # {}

\* the sub-question ids of the chain-of-thought texts of a prompt, in order
CotIds(prompt) ==
    LET runs == SelectSeq(prompt, LAMBDA r : r[1] \in {"cot", "cot_err"} /\ r[2] > 0)
    IN  [k \in 1..Len(runs) |-> runs[k][2]]

\* C1: whatever the order in which the tasks finish, slot i of the list
\* process_all_chain_of_thought_questions returns holds the answer to
\* sub-question i, and the prompt carries the answers in that order.
C1_AnswersInInputOrder ==
    (FanOutLeft /\ gather = "returned") =>
        /\ Len(cot_responses) = Len(chain_of_thought_questions)
        /\ \A i \in DOMAIN cot_responses :
              /\ cot_responses[i] # <<>>
              /\ cot_responses[i][1][2] = chain_of_thought_questions[i]
        /\ CotIds(formatted_query) = chain_of_thought_questions

C1_Witness ==
    /\ FanOutLeft
    /\ gather = "returned"
    /\ Len(order) >= 2
    /\ order[1] > order[2]
    /\ CotIds(formatted_query) = <<1, 2>>

\* C2: when one of several sub-questions fails in one of its steps, the
\* fan-out returns normally, the failing slot holds the error text and every
\* other slot holds an answer.
C2_FailureIsolated ==
    (/\ FanOutLeft
     /\ Cardinality(Tasks) >= 2
     /\ Cardinality({i \in Tasks : failedAt[i] # None}) = 1) =>
        /\ gather = "returned"
        /\ \A i \in Tasks :
              /\ cot_responses[i] # <<>>
              /\ cot_responses[i][1][1] = (IF failedAt[i] = None THEN "cot" ELSE "cot_err")

\* C3: a failure of one sub-question does not abort the main query: ask_main
\* assembles the prompt and streams the generation call's output, not the
\* generic error message.
C3_MainQuerySurvives ==
    (mainPc = "done" /\ \E i \in Tasks : failedAt[i] # None) =>
        /\ formatted_query # <<>>
        /\ \A k \in DOMAIN out : out[k] # "generic_error"

\* C4: ask_main gets control back from the fan-out only when every dispatched
\* task has completed or failed; none is still running and none is cancelled.
C4_WaitsForAll ==
    FanOutLeft => \A i \in Tasks : pc[i] \in {"done", "failed"}

\* C5: while one sub-question is in its generation call, every other
\* sub-question that waits for its embedding or its graph read can take its
\* next step.
C5_NoTaskBlocksAnother ==
    \A i, j \in Tasks :
        (i # j /\ pc[i] = "generate" /\ pc[j] \in {"embed", "retrieve"})
            => ENABLED TaskStep(j)

Min(a, b) == IF a < b THEN a ELSE b

\* C13 as stated: the sub-questions dispatched to the fan-out are exactly the
\* first min(n, m) of the n the model returned, in the order returned, for
\* every cap m given to ask_main.
C13_DispatchedFirstMinOfReturnedAndCap ==
    (llm_response.parsed /\ gather # "idle") =>
        LET dispatched == Min(llm_response.nq, max_chain_of_thought_questions)
        IN  /\ Tasks = 1..dispatched
            /\ chain_of_thought_questions = [k \in 1..dispatched |-> k]

\* C13: the sub-questions dispatched to the fan-out are exactly the first
\* min(n, m, 3) of the n the model returned, in the order returned: the
\* extractor keeps three at most, whatever the cap m of ask_main.
C13_DispatchedFirstMinOfReturnedCapAndThree ==
    (llm_response.parsed /\ gather # "idle") =>
        LET dispatched == Min(Min(llm_response.nq, max_chain_of_thought_questions), 3)
        IN  /\ Tasks = 1..dispatched
            /\ chain_of_thought_questions = [k \in 1..dispatched |-> k]

\* four sub-questions returned under a cap of four, three tasks dispatched
C13_Witness ==
    /\ llm_response.parsed
    /\ llm_response.nq = 4
    /\ max_chain_of_thought_questions = 4
    /\ mainPc = "gather"
    /\ Tasks = 1..3

(***************************************************************************)
(* Specification SpecExtract: extract_query_elements from the parse on     *)
(* (ask.py 180-214), applied to every response within the bounds.          *)
(* A JSON value is a record [t, v]: t its type, v its content; a string is *)
(* a sequence of characters, "a" a lower-case letter, "A" an upper-case    *)
(* one.  A key of an object holds <<>> when absent, <<value>> when present. *)
(***************************************************************************)
MaxConcepts == 2    \* longest key_concepts list the model returns

JNull == [t |-> "null", v |-> <<>>]

JNum == [t |-> "num", v |-> <<>>]

JStr(s) == [t |-> "str", v |-> s]

JList(s) == [t |-> "list", v |-> s]

Opt(S) == {<<>>} \cup {<<x>> : x \in S}

ConceptValues == {JStr(<<"a", "a">>), JStr(<<"a", "A">>), JStr(<<"A", " ", "a">>), JNum}

\* the k-th sub-question of the response
Question(k) == [t |-> "question", v |-> k]

\* a response that is not a JSON object: text that does not parse, a
\* top-level array, a top-level number
NotAnObject(kind) ==
    [kind |-> kind, key_entities |-> <<>>, key_concepts |-> <<>>,
     time_reference |-> <<>>, chain_of_thought_questions |-> <<>>]

FullResponses ==
    {NotAnObject(kind) : kind \in {"text", "array", "number"}} \cup
    [kind : {"object"},
     key_entities : Opt({JNull, JList(<<>>), JList(<<JStr(<<"A">>)>>)}),
     key_concepts : Opt({JNull} \cup {JList(c) : c \in SeqsUpTo(ConceptValues, MaxConcepts)}),
     time_reference : Opt({JNull, JStr(<<"a">>)}),
     chain_of_thought_questions :
         Opt({JNull} \cup {JList([k \in 1..n |-> Question(k)]) : n \in 0..MaxReturned})]

expected_keys == {"key_entities", "key_concepts", "time_reference", "chain_of_thought_questions"}

\* the value the loop over expected_keys gives to a missing key
DefaultOf(key) == IF key = "time_reference" THEN JNull ELSE JList(<<>>)

\* str.title(): the first letter of each word in upper case, the others in lower case
Title(s) ==
    [i \in 1..Len(s) |->
        IF s[i] = " " THEN " "
        ELSE IF i = 1 THEN "A"
        ELSE IF s[i - 1] = " " THEN "A" ELSE "a"]

Returned(value) == [raised |-> None, value |-> <<value>>]

Raised(exception) == [raised |-> exception, value |-> <<>>]

\* the object of the except branch
DefaultElements ==
    [key_entities |-> JList(<<>>), key_concepts |-> JList(<<>>),
     time_reference |-> JNull, chain_of_thought_questions |-> JList(<<>>),
     ideal_mix |-> << [events |-> 0, claims_ideas |-> 0, chunks |-> 0] >>]

\* the try block and its except json.JSONDecodeError: any other exception
\* leaves the function
extract_query_elements(response) ==
    IF response.kind = "text" THEN Returned(DefaultElements)
    ELSE IF response.kind # "object" THEN Raised("TypeError")
    ELSE
      LET Filled(key) == IF response[key] = <<>> THEN DefaultOf(key) ELSE response[key][1]
          key_entities == Filled("key_entities")
          concepts == Filled("key_concepts")
          questions == Filled("chain_of_thought_questions")
          cut == IF key_entities.v = <<>> THEN Take(concepts.v, 10) ELSE concepts.v
      IN  IF concepts.t # "list" \/ questions.t # "list" THEN Raised("TypeError")
          ELSE IF \E i \in DOMAIN cut : cut[i].t # "str" THEN Raised("AttributeError")
          ELSE Returned(
                 [key_entities |-> key_entities,
                  key_concepts |-> JList([i \in DOMAIN cut |-> JStr(Title(cut[i].v))]),
                  time_reference |-> Filled("time_reference"),
                  chain_of_thought_questions |-> JList(Take(questions.v, 3)),
                  ideal_mix |-> <<>>])

InitExtract ==
    /\ MainInit
    /\ FormatIdle
    /\ ModeIdle
    /\ RankIdle
    /\ LoopIdle
    /\ full_response \in FullResponses
    /\ elements = None
    /\ epc = "call"
    /\ relevant_concepts = None

\* the call and its return or its exception
ExtractCall ==
    /\ epc = "call"
    /\ elements' = extract_query_elements(full_response)
    /\ epc' = "returned"
    /\ UNCHANGED <<full_response, relevant_concepts, mainVars, formatVars, modeVars,
                   rankVars, loopVars>>

\* the Concept nodes of the graph, by node id: their names
ConceptNodes == <<<<"A", "a">>, <<"B", "b">>>>

\* ask.py 403-404: UNWIND $key_concepts, MATCH (concept:Concept {name: key_concept});
\* one row per name of the list and node of that name, in the order of the list
MatchConcepts(key_concepts) ==
    LET RECURSIVE Rows(_)
        Rows(k) ==
            IF k = 0 THEN <<>>
            ELSE Rows(k - 1) \o
                 SelectSeq([n \in DOMAIN ConceptNodes |-> n],
                           LAMBDA n : ConceptNodes[n] = key_concepts[k].v)
    IN  Rows(Len(key_concepts))

\* COLLECT without DISTINCT
CollectAll(rows) == rows

\* ask.py 405: COLLECT(DISTINCT concept)
CollectDistinct(rows) ==
    LET RECURSIVE Kept(_)
        Kept(k) ==
            IF k = 0 THEN <<>>
            ELSE IF \E j \in 1..(k - 1) : rows[j] = rows[k] THEN Kept(k - 1)
            ELSE Append(Kept(k - 1), rows[k])
    IN  Kept(Len(rows))

\* ask.py 672, 708-711: ask_main hands the key_concepts of the returned object
\* to get_relevant_concept_relationships, whose query starts from the
\* distinct Concept nodes that bear one of the names
LookupCall ==
    /\ epc = "returned"
    /\ elements.raised = None
    /\ relevant_concepts' = CollectDistinct(MatchConcepts(elements.value[1].key_concepts.v))
    /\ epc' = "looked_up"
    /\ UNCHANGED <<full_response, elements, mainVars, formatVars, modeVars, rankVars,
                   loopVars>>

NextExtract ==
    \/ ExtractCall
    \/ LookupCall

SpecExtract == InitExtract /\ [][NextExtract]_vars

\* C11: whatever the model returned, wrong shapes included, the call does not
\* raise and returns an object that holds the four expected keys, the three
\* lists as lists.
C11_WrongShapeNeverRaises ==
    epc = "returned" =>
        /\ elements.raised = None
        /\ \A key \in expected_keys \ {"time_reference"} : elements.value[1][key].t = "list"

\* C12: when the parsed object lacks one of the four expected keys, the call
\* does not raise, every missing key holds its default and every key that
\* was present holds the value that was parsed.
C12_MissingKeysDefaulted ==
    (/\ epc = "returned"
     /\ full_response.kind = "object"
     /\ \E key \in expected_keys : full_response[key] = <<>>) =>
        /\ elements.raised = None
        /\ \A key \in expected_keys :
              elements.value[1][key] =
                  IF full_response[key] = <<>> THEN DefaultOf(key)
                  ELSE full_response[key][1]

\* the names ask_main passes to the relationship lookup
PassedConcepts == elements.value[1].key_concepts.v

\* the key_concepts of the model's response, none when the key is absent
ExtractedConcepts ==
    IF full_response.key_concepts = <<>> THEN <<>> ELSE full_response.key_concepts[1].v

MaxWords == 2       \* longest query, in words

Words == {"current", "Recent", "currently", "historic", "old", "ancient",
          "latest", "today", "now", "climate"}

\* what an extractor put under time_reference
TimeReferences == {None, "recent", "historic"}

Runs == {1, 2}

\* re.IGNORECASE on the words of the model
Lower(word) == IF word = "Recent" THEN "recent" ELSE word

\* re.search(r'\b(w1|w2|...)\b', query, re.IGNORECASE): one of the
\* alternatives is a whole word of the query
Search(alternatives, q) == \E i \in DOMAIN q : Lower(q[i]) \in alternatives

\* the same block reading the extractor's time_reference first
QueryDateRangeFromTimeReference(q, time_ref) ==
    IF time_ref # None THEN time_ref
    ELSE IF Search({"current", "recent"}, q) THEN "recent"
    ELSE IF Search({"historic", "old", "ancient"}, q) THEN "historic"
    ELSE IF Search({"latest", "today", "now"}, q) THEN "latest"
    ELSE None

\* ask.py 685-693, at a point where query and the time_reference of line
\* 673 are in scope
QueryDateRange(q, time_ref) ==
    IF Search({"current", "recent"}, q) THEN "recent"
    ELSE IF Search({"historic", "old", "ancient"}, q) THEN "historic"
    ELSE IF Search({"latest", "today", "now"}, q) THEN "latest"
    ELSE None

InitMode ==
    /\ MainInit
    /\ FormatIdle
    /\ ExtractIdle
    /\ RankIdle
    /\ LoopIdle
    /\ query_text \in SeqsUpTo(Words, MaxWords)
    /\ time_reference \in [Runs -> TimeReferences]
    /\ query_date_range = [r \in Runs |-> "unset"]

\* run r of ask_main reaches line 693
Classify(r) ==
    /\ query_date_range[r] = "unset"
    /\ query_date_range' =
           [query_date_range EXCEPT ![r] = QueryDateRange(query_text, time_reference[r])]
    /\ UNCHANGED <<query_text, time_reference, mainVars, formatVars, extractVars,
                   rankVars, loopVars>>

NextMode == \E r \in Runs : Classify(r)

SpecMode == InitMode /\ [][NextMode]_vars

\* C14: two runs on the same query text pass the same date-range mode to the
\* ranker, whatever their extractors returned, time_reference included.
C14_ModeFromQueryTextAlone ==
    \A r1, r2 \in Runs :
        (query_date_range[r1] # "unset" /\ query_date_range[r2] # "unset")
            => query_date_range[r1] = query_date_range[r2]

\* both runs classified "old recent ..." as recent though one extractor said
\* historic and the other gave no time reference
C14_Witness ==
    /\ query_text = <<"old", "Recent">>
    /\ time_reference[1] = "historic"
    /\ time_reference[2] = None
    /\ query_date_range[1] = "recent"
    /\ query_date_range[2] = "recent"

(***************************************************************************)
(* Specification SpecRank: get_relevant_events_and_claims (ask.py 228-354) *)
(* called once per date-range mode on the same graph with the same         *)
(* parameters.  Numbers are fixed-point integers: a similarity in          *)
(* hundredths, a time relevance in ten-thousandths, a combined score in    *)
(* hundred-thousandths.  A start_date is the number of days from it to the *)
(* current date (negative: in the future), <<>> when the property is null. *)
(* Every node has an embedding, of which the model keeps the cosine        *)
(* similarity to the query vector.                                         *)
(***************************************************************************)
MaxPool == 3        \* most nodes in the graph
MaxRankCap == 2     \* largest max_events and max_claims tried

P3M == 92           \* duration('P3M') before a 5 November, in days
P3D == 3            \* duration('P3D'), in days
P50Y == 18262       \* duration('P50Y') before 5 November 2026, in days

\* the nodes a graph may hold, in storage order
Nodes == <<
    [type |-> "Event", start_date |-> <<2>>, similarity |-> 50],
    [type |-> "Event", start_date |-> <<60>>, similarity |-> 60],
    [type |-> "Event", start_date |-> <<14610>>, similarity |-> 60],
    [type |-> "Event", start_date |-> <<18500>>, similarity |-> 80],
    [type |-> "Event", start_date |-> <<-5>>, similarity |-> 90],
    [type |-> "Event", start_date |-> <<>>, similarity |-> 90],
    [type |-> "Claim", start_date |-> <<>>, similarity |-> 80],
    [type |-> "Claim", start_date |-> <<>>, similarity |-> 60],
    [type |-> "Claim", start_date |-> <<>>, similarity |-> 60],
    [type |-> "Claim", start_date |-> <<>>, similarity |-> 20],
    [type |-> "Event", start_date |-> <<3>>, similarity |-> 60],
    [type |-> "Event", start_date |-> <<92>>, similarity |-> 60],
    [type |-> "Event", start_date |-> <<18262>>, similarity |-> 60] >>

Thresholds == {30, 70}

Modes == {"recent", "latest", "historic", None}

RankArgs ==
    [nodes : {S \in SUBSET DOMAIN Nodes : Cardinality(S) <= MaxPool},
     max_events : 0..MaxRankCap,
     max_claims : 0..MaxRankCap,
     similarity_threshold : Thresholds]

\* exp(-years_ago * recent_coeff), years_ago = days / 365.25, recent_coeff = 0.33
RecentDecay(days) ==
    CASE days = -5 -> 10045 [] days = 2 -> 9982 [] days = 3 -> 9973
      [] days = 4 -> 9964 [] days = 60 -> 9472 [] days = 92 -> 9202
      [] days = 93 -> 9194 [] days >= 14610 -> 0

\* 1 - exp(-years_ago / historic_coeff), historic_coeff = 50
HistoricGrowth(days) ==
    CASE days = -5 -> -3 [] days = 2 -> 1 [] days = 3 -> 2 [] days = 4 -> 2
      [] days = 60 -> 33 [] days = 92 -> 50 [] days = 93 -> 51
      [] days = 14610 -> 5507 [] days = 18262 -> 6321 [] days = 18263 -> 6321
      [] days = 18500 -> 6369

\* 1 / (1 + years_ago / default_coeff), default_coeff = 5:
\* 1826.25 / (1826.25 + days)
DefaultDecay(days) == (182625 * 10000) \div (182625 + 100 * days)

\* the events' WHERE clause without its CASE
InWindowAlways(days, date_range) == TRUE

\* the CASE of the events' WHERE clause with the recent window for latest
InWindowLatestAsRecent(days, date_range) ==
    CASE date_range \in {"recent", "latest"} -> days <= P3M
      [] date_range = "historic" -> days > P50Y
      [] OTHER -> TRUE

\* the CASE of the events' WHERE clause
InWindow(days, date_range) ==
    CASE date_range = "recent" -> days <= P3M
      [] date_range = "latest" -> days <= P3D
      [] date_range = "historic" -> days > P50Y
      [] OTHER -> TRUE

\* the WHERE clause of MATCH (n:Event) without n.start_date <= date()
EventMatchesWithFuture(n, date_range) ==
    /\ n.start_date # <<>>
    /\ InWindow(n.start_date[1], date_range)

\* the WHERE clause of MATCH (n:Event) with a null date let through
EventMatchesWithNull(n, date_range) ==
    \/ n.start_date = <<>>
    \/ /\ n.start_date[1] >= 0
       /\ InWindow(n.start_date[1], date_range)

\* the WHERE clause of MATCH (n:Event); a comparison with a null date is null
EventMatches(n, date_range) ==
    /\ n.start_date # <<>>
    /\ n.start_date[1] >= 0
    /\ InWindow(n.start_date[1], date_range)

\* the rows of the CALL subquery: the events that match, then the claims
Matched(nodes, date_range) ==
    LET ids == [i \in DOMAIN Nodes |-> i]
        Row(i) == [id |-> i, type |-> Nodes[i].type,
                   start_date |-> IF Nodes[i].type = "Event" THEN Nodes[i].start_date ELSE <<>>,
                   similarity |-> Nodes[i].similarity]
        events == SelectSeq(ids, LAMBDA i : i \in nodes /\ Nodes[i].type = "Event"
                                            /\ EventMatches(Nodes[i], date_range))
        claims == SelectSeq(ids, LAMBDA i : i \in nodes /\ Nodes[i].type = "Claim")
    IN  [k \in 1..Len(events) |-> Row(events[k])] \o [k \in 1..Len(claims) |-> Row(claims[k])]

TimeRelevance(row, date_range) ==
    IF row.type = "Event" /\ row.start_date # <<>>
    THEN CASE date_range \in {"recent", "latest"} -> RecentDecay(row.start_date[1])
           [] date_range = "historic" -> HistoricGrowth(row.start_date[1])
           [] OTHER -> DefaultDecay(row.start_date[1])
    ELSE IF row.type = "Claim" THEN 10000
    ELSE 5000

\* (similarity * 0.7) + (time_relevance * 0.3) for an event, similarity for a claim
CombinedScore(type, similarity, time_relevance) ==
    IF type = "Event" THEN 700 * similarity + 3 * time_relevance
    ELSE 1000 * similarity

\* a row with its time relevance and its combined score
Scored(row, date_range) ==
    LET time_relevance == TimeRelevance(row, date_range)
    IN  [id |-> row.id, type |-> row.type, start_date |-> row.start_date,
         similarity |-> row.similarity, time_relevance |-> time_relevance,
         combined_score |-> CombinedScore(row.type, row.similarity, time_relevance)]

\* the threshold put in the events' branch only
PassesThresholdEventsOnly(row, similarity_threshold) ==
    row.type = "Claim" \/ row.similarity >= similarity_threshold

\* WHERE similarity >= $similarity_threshold
PassesThreshold(row, similarity_threshold) == row.similarity >= similarity_threshold

RECURSIVE OrderByScoreAsc(_)
\* ORDER BY combined_score, without DESC
OrderByScoreAsc(rows) ==
    IF rows = <<>> THEN <<>>
    ELSE LET sorted == OrderByScoreAsc(ButLast(rows))
             row == rows[Len(rows)]
             k == Cardinality({j \in DOMAIN sorted :
                                  sorted[j].combined_score <= row.combined_score})
         IN  SubSeq(sorted, 1, k) \o <<row>> \o SubSeq(sorted, k + 1, Len(sorted))

RECURSIVE OrderByScoreDesc(_)
\* ORDER BY combined_score DESC; rows of equal score keep their order of arrival
OrderByScoreDesc(rows) ==
    IF rows = <<>> THEN <<>>
    ELSE LET sorted == OrderByScoreDesc(ButLast(rows))
             row == rows[Len(rows)]
             k == Cardinality({j \in DOMAIN sorted :
                                  sorted[j].combined_score >= row.combined_score})
         IN  SubSeq(sorted, 1, k) \o <<row>> \o SubSeq(sorted, k + 1, Len(sorted))

\* the slice taken on the sorted rows before they are grouped by type
CollectAfterSlice(sorted, type, max_items) ==
    SelectSeq(Take(sorted, max_items), LAMBDA row : row.type = type)

\* WITH type, COLLECT({...})[0..$max_items] AS items, for one type
Collect(sorted, type, max_items) ==
    Take(SelectSeq(sorted, LAMBDA row : row.type = type), max_items)

\* max(max_events, max_claims)
Max(a, b) == IF a > b THEN a ELSE b

\* the lists returned as the query delivered them
CutToCapMissing(items, cap) == items

\* events[:max_events], claims[:max_claims]
CutToCap(items, cap) == Take(items, cap)

get_relevant_events_and_claims(nodes, max_events, max_claims, similarity_threshold, date_range) ==
    LET rows == SelectSeq(Matched(nodes, date_range),
                          LAMBDA row : PassesThreshold(row, similarity_threshold))
        sorted == OrderByScoreDesc([k \in DOMAIN rows |-> Scored(rows[k], date_range)])
        max_items == Max(max_events, max_claims)
    IN  [events |-> CutToCap(Collect(sorted, "Event", max_items), max_events),
         claims |-> CutToCap(Collect(sorted, "Claim", max_items), max_claims)]

InitRank ==
    /\ MainInit
    /\ FormatIdle
    /\ ExtractIdle
    /\ ModeIdle
    /\ LoopIdle
    /\ rank_args \in RankArgs
    /\ ranked = [date_range \in Modes |-> <<>>]

\* the call under one date-range mode and its return
RankCall(date_range) ==
    /\ ranked[date_range] = <<>>
    /\ ranked' = [ranked EXCEPT ![date_range] =
           << get_relevant_events_and_claims(rank_args.nodes, rank_args.max_events,
                  rank_args.max_claims, rank_args.similarity_threshold, date_range) >>]
    /\ UNCHANGED <<rank_args, mainVars, formatVars, extractVars, modeVars, loopVars>>

NextRank == \E date_range \in Modes : RankCall(date_range)

SpecRank == InitRank /\ [][NextRank]_vars

\* the calls that returned
Called == {date_range \in Modes : ranked[date_range] # <<>>}

\* the events and the claims a call returned, as one list
Items(date_range) == ranked[date_range][1].events \o ranked[date_range][1].claims

\* C15: under every date-range mode, no returned event or claim has a
\* similarity below the threshold passed to the call.
C15_NoneBelowThreshold ==
    \A date_range \in Called :
        \A k \in DOMAIN Items(date_range) :
            Items(date_range)[k].similarity >= rank_args.similarity_threshold

\* a claim of similarity 0.2 is in the graph, and the call under threshold
\* 0.3 returned the claim of similarity 0.6 alone
C15_Witness ==
    /\ rank_args.nodes = {8, 10}
    /\ rank_args.similarity_threshold = 30
    /\ rank_args.max_claims = 2
    /\ None \in Called
    /\ Len(ranked[None][1].claims) = 1
    /\ ranked[None][1].claims[1].id = 8

\* C16: a call returns at most max_events events and at most max_claims
\* claims, whatever the two caps, different or zero.
C16_AtMostTheCaps ==
    \A date_range \in Called :
        /\ Len(ranked[date_range][1].events) <= rank_args.max_events
        /\ Len(ranked[date_range][1].claims) <= rank_args.max_claims

\* caps 0 and 1 over one eligible event and two eligible claims
C16_Witness ==
    /\ rank_args.nodes = {2, 7, 8}
    /\ rank_args.similarity_threshold = 30
    /\ rank_args.max_events = 0
    /\ rank_args.max_claims = 1
    /\ None \in Called
    /\ ranked[None][1].events = <<>>
    /\ Len(ranked[None][1].claims) = 1

\* the nodes of one type in the graph that pass the WHERE clauses of a call
Eligible(type, date_range) ==
    {i \in rank_args.nodes :
        /\ Nodes[i].type = type
        /\ Nodes[i].similarity >= rank_args.similarity_threshold
        /\ type = "Event" =>
              /\ Nodes[i].start_date # <<>>
              /\ Nodes[i].start_date[1] >= 0
              /\ InWindow(Nodes[i].start_date[1], date_range)}

\* the combined score of a node under a mode
ScoreOf(i, date_range) ==
    CombinedScore(Nodes[i].type, Nodes[i].similarity, TimeRelevance(Nodes[i], date_range))

\* list holds the cap best-scored eligible nodes of the type (all of them
\* when fewer are eligible), each once, in non-increasing order of score
IsTop(list, type, cap, date_range) ==
    /\ Len(list) = Min(cap, Cardinality(Eligible(type, date_range)))
    /\ \A k \in DOMAIN list :
          /\ list[k].id \in Eligible(type, date_range)
          /\ list[k].combined_score = ScoreOf(list[k].id, date_range)
          /\ \A j \in 1..(k - 1) :
                /\ list[j].id # list[k].id
                /\ list[j].combined_score >= list[k].combined_score
          /\ \A i \in Eligible(type, date_range) \ {list[j].id : j \in DOMAIN list} :
                ScoreOf(i, date_range) <= list[k].combined_score

\* C17: the events a call returns are exactly the max_events eligible events
\* of highest combined score (every eligible event when there are fewer), in
\* non-increasing order of combined score; likewise the claims and max_claims.
C17_TopByCombinedScore ==
    \A date_range \in Called :
        /\ IsTop(ranked[date_range][1].events, "Event", rank_args.max_events, date_range)
        /\ IsTop(ranked[date_range][1].claims, "Claim", rank_args.max_claims, date_range)

\* three eligible events under a cap of two: the event stored last outranks
\* the one stored before it and takes its place
C17_Witness ==
    /\ rank_args.nodes = {1, 3, 4}
    /\ rank_args.similarity_threshold = 30
    /\ rank_args.max_events = 2
    /\ None \in Called
    /\ Len(ranked[None][1].events) = 2
    /\ ranked[None][1].events[1].id = 1
    /\ ranked[None][1].events[2].id = 4

\* C18: under every date-range mode, no returned event has a start date
\* later than the current date.
C18_NoFutureEvent ==
    \A date_range \in Called :
        \A k \in DOMAIN ranked[date_range][1].events :
            LET event == ranked[date_range][1].events[k]
            IN  ~(event.start_date # <<>> /\ event.start_date[1] < 0)

\* the graph holds an event dated five days ahead, of similarity 0.9, and an
\* event of two days ago: the call returned the second alone
C18_Witness ==
    /\ rank_args.nodes = {1, 5}
    /\ rank_args.similarity_threshold = 30
    /\ rank_args.max_events = 2
    /\ None \in Called
    /\ Len(ranked[None][1].events) = 1
    /\ ranked[None][1].events[1].id = 1

\* the recent-mode call on a graph holding the event of two months ago and
\* the event of 40 years ago, both of similarity 0.6, with room for both
RecentScenario ==
    /\ "recent" \in Called
    /\ {2, 3} \subseteq rank_args.nodes
    /\ rank_args.similarity_threshold = 30
    /\ rank_args.max_events = 2
    /\ Cardinality({i \in rank_args.nodes : Nodes[i].type = "Event"}) = 2

\* C19 as stated: in recent mode the ranker gives a combined score to both
\* events, and a strictly higher one to the event of two months ago than to
\* the event of 40 years ago.
C19_RecentScoresBothEvents ==
    RecentScenario =>
        \E j, k \in DOMAIN ranked["recent"][1].events :
            /\ ranked["recent"][1].events[j].id = 2
            /\ ranked["recent"][1].events[k].id = 3
            /\ ranked["recent"][1].events[j].combined_score >
                   ranked["recent"][1].events[k].combined_score

\* C19: a query with the word "current" is classified recent; in recent mode
\* the event of two months ago is returned with the combined score
\* 0.7 * 0.6 + 0.3 * exp(-0.33 * 60 / 365.25) = 0.70416, the event of 40
\* years ago is outside the three-month window and is neither scored nor
\* returned; the decay formula on its age would give it less, 0.42.
C19_RecentReturnsTheNewerEventAlone ==
    RecentScenario =>
        /\ QueryDateRange(<<"current">>, None) = "recent"
        /\ Len(ranked["recent"][1].events) = 1
        /\ ranked["recent"][1].events[1].id = 2
        /\ ranked["recent"][1].events[1].combined_score = 70416
        /\ CombinedScore("Event", 60, RecentDecay(14610)) = 42000

C19_Witness ==
    /\ RecentScenario
    /\ rank_args.nodes = {2, 3}
    /\ Len(ranked["recent"][1].events) = 1

\* C20: the claims a call returns and their order are the same under every
\* date-range mode; a claim has time relevance 1 and its similarity as
\* combined score.
C20_ClaimsIndependentOfMode ==
    \A date_range \in Called :
        /\ \A other \in Called : ranked[date_range][1].claims = ranked[other][1].claims
        /\ \A k \in DOMAIN ranked[date_range][1].claims :
              LET claim == ranked[date_range][1].claims[k]
              IN  /\ claim.time_relevance = 10000
                  /\ claim.combined_score = 1000 * claim.similarity

\* the recent call returned an event, the historic call none, and both the
\* same two claims, best first
C20_Witness ==
    /\ rank_args.nodes = {2, 7, 8}
    /\ rank_args.similarity_threshold = 30
    /\ rank_args.max_events = 1
    /\ rank_args.max_claims = 2
    /\ {"recent", "historic"} \subseteq Called
    /\ ranked["recent"][1].events # ranked["historic"][1].events
    /\ Len(ranked["recent"][1].claims) = 2
    /\ ranked["historic"][1].claims[1].id = 7
    /\ ranked["historic"][1].claims[2].id = 8

\* the events a call returned
ReturnedEvents(date_range) == ranked[date_range][1].events

\* the dated events of the graph that lie in the past and pass the threshold
PastSimilarEvents ==
    {i \in rank_args.nodes :
        /\ Nodes[i].type = "Event"
        /\ Nodes[i].start_date # <<>>
        /\ Nodes[i].start_date[1] >= 0
        /\ Nodes[i].similarity >= rank_args.similarity_threshold}

\* C29: every returned event lies inside the look-back window of the mode:
\* at most 3 months back in recent mode, at most 3 days back in latest mode,
\* more than 50 years back in historic mode; in unspecified mode there is no
\* window: every past event of sufficient similarity is returned when the cap
\* leaves room for all of them.
C29_EventsInsideTheWindow ==
    /\ \A date_range \in Called :
          \A k \in DOMAIN ReturnedEvents(date_range) :
              LET days == ReturnedEvents(date_range)[k].start_date[1]
              IN  /\ date_range = "recent" => days <= P3M
                  /\ date_range = "latest" => days <= P3D
                  /\ date_range = "historic" => days > P50Y
    /\ (None \in Called /\ Cardinality(PastSimilarEvents) <= rank_args.max_events) =>
          {ReturnedEvents(None)[k].id : k \in DOMAIN ReturnedEvents(None)} = PastSimilarEvents

\* the graph holds the events of 3 days, of 3 months and of exactly 50 years
\* ago: with room for two events latest returned the first alone, recent the
\* first two, historic none, unspecified two of the three
C29_Witness ==
    /\ rank_args.nodes = {11, 12, 13}
    /\ rank_args.similarity_threshold = 30
    /\ rank_args.max_events = 2
    /\ Called = Modes
    /\ Len(ReturnedEvents("latest")) = 1
    /\ ReturnedEvents("latest")[1].id = 11
    /\ {ReturnedEvents("recent")[k].id : k \in 1..2} = {11, 12}
    /\ ReturnedEvents("historic") = <<>>
    /\ Len(ReturnedEvents(None)) = 2

\* the time relevance the formula of the mode gives to an event dated days ago
ModeFormula(days, date_range) ==
    CASE date_range = "recent" -> RecentDecay(days)
      [] date_range = "latest" -> RecentDecay(days)
      [] date_range = "historic" -> HistoricGrowth(days)
      [] OTHER -> DefaultDecay(days)

\* C30: under every date-range mode, no returned event has a null
\* start_date, and the time relevance of every returned event is the value of
\* the formula of the mode, never the default 0.5.
C30_NoNullDateNoDefaultRelevance ==
    \A date_range \in Called :
        \A k \in DOMAIN ReturnedEvents(date_range) :
            LET event == ReturnedEvents(date_range)[k]
            IN  /\ Nodes[event.id].start_date # <<>>
                /\ event.start_date # <<>>
                /\ event.time_relevance = ModeFormula(event.start_date[1], date_range)
                /\ event.time_relevance # 5000

\* the graph holds an event without start_date, of similarity 0.9, and the
\* event of two days ago: each of the four calls, with room for two events,
\* returned at most the dated event, and the unspecified call returned it
C30_Witness ==
    /\ rank_args.nodes = {1, 6}
    /\ rank_args.similarity_threshold = 30
    /\ rank_args.max_events = 2
    /\ Called = Modes
    /\ \A date_range \in Modes : Len(ReturnedEvents(date_range)) <= 1
    /\ Len(ReturnedEvents(None)) = 1
    /\ ReturnedEvents(None)[1].id = 1
    /\ ReturnedEvents(None)[1].time_relevance = DefaultDecay(2)

(***************************************************************************)
(* Properties of main(), of the stream of ask_main and of the driver       *)
(* variable (specification Spec).                                          *)
(***************************************************************************)
\* the request holds both required keys
WellFormed == request.kind = "object" /\ request.question /\ request.conversationId

\* C21: a well-formed request has produced at least one output line when the
\* stream of ask_main has ended, whatever the providers did: output, an empty
\* stream, a failure at any stage.
C21_AtLeastOneIncrement ==
    (WellFormed /\ mainPc = "done") => payloads # <<>>

\* C22: when the provider fails during the main generation call, at whatever
\* point of its stream, the fallback message of call_llm is the only answer
\* content ask_main yields, and it is yielded once.
C22_FallbackIsTheOnlyAnswer ==
    (\E k \in DOMAIN out : out[k] = "llm_fallback") => out = <<"llm_fallback">>

\* C23: when the request is not valid JSON or lacks question or
\* conversationId, main() prints exactly one error payload and no chunk
\* payload, and ask_main is never started: no extraction, no retrieval (no
\* driver, no task), no generation.
C23_MalformedRequestOneError ==
    (~WellFormed /\ main_pc # "read") =>
        /\ Len(payloads) = 1
        /\ payloads[1].key = "error"
        /\ main_pc = "input_error"
        /\ mainPc = "extract"
        /\ ideal_mix = None
        /\ retrieved = None
        /\ neo4j_driver = None
        /\ Tasks = {}
        /\ out = <<>>

\* a request with a question and no conversationId was answered by the
\* payload of the KeyError clause
C23_Witness ==
    /\ request = [kind |-> "object", question |-> TRUE, conversationId |-> FALSE]
    /\ payloads = <<Error("Missing required input: 'conversationId'")>>
    /\ main_pc = "input_error"

\* C25: the driver variable is not closed and unset by ask_main while a task
\* of the fan-out is using the driver in its graph read.
C25_DriverNotClosedUnderATask ==
    mainPc = "closing" => \A i \in Tasks : pc[i] # "retrieve"

\* C27: when the stream of ask_main has ended, normally or after an error,
\* the driver is closed and the variable unset, and it stays so: no task of
\* the query opens a new driver afterwards.
C27_DriverClosedAndUnsetAtEnd ==
    mainPc = "done" => neo4j_driver = None

\* C28: what main() printed is either chunk payloads only or exactly one
\* error payload; no error payload follows a chunk payload, also when the
\* close of the driver at the end of ask_main fails.
C28_NoErrorAfterChunk ==
    \A k \in DOMAIN payloads : payloads[k].key = "error" => Len(payloads) = 1

(***************************************************************************)
(* The accumulation loop of extract_query_elements (ask.py 145-178).  The  *)
(* loop body runs only when the provider's stream hands over an increment; *)
(* the clock is read at the end of the body.  Time is counted in seconds.  *)
(***************************************************************************)

\* ask.py 147: timeout = 30
timeout == 30

\* seconds past the timeout that the clock is followed
MaxOvertime == 2

\* increments the provider delivers at most
MaxChunks == 3

\* ask.py 145-152: the state when the async for is entered
InitLoop ==
    /\ MainInit
    /\ FormatIdle
    /\ ExtractIdle
    /\ ModeIdle
    /\ RankIdle
    /\ elapsed = 0
    /\ stream = "open"
    /\ received = 0
    /\ complete = FALSE
    /\ lpc = "await"

\* time passes while the loop is suspended in the async for (ask.py 152)
Tick ==
    /\ lpc = "await"
    /\ elapsed < timeout + MaxOvertime
    /\ elapsed' = elapsed + 1
    /\ UNCHANGED <<stream, received, complete, lpc, mainVars, formatVars,
                   extractVars, modeVars, rankVars>>

\* ask.py 152-169: the stream yields an increment, which is added to
\* full_response; the depth tracking finds the text complete or not
Deliver ==
    /\ lpc = "await"
    /\ stream = "open"
    /\ received < MaxChunks
    /\ received' = received + 1
    /\ complete' \in BOOLEAN
    /\ lpc' = "check"
    /\ UNCHANGED <<elapsed, stream, mainVars, formatVars, extractVars, modeVars,
                   rankVars>>

\* ask.py 102-105: the provider call raises; call_llm yields its fallback
\* sentence, which does not end with a closing brace
ProviderFail ==
    /\ lpc = "await"
    /\ stream = "open"
    /\ stream' = "failed"
    /\ received' = received + 1
    /\ complete' = FALSE
    /\ lpc' = "check"
    /\ UNCHANGED <<elapsed, mainVars, formatVars, extractVars, modeVars, rankVars>>

\* ask.py 152: the stream is exhausted (the provider ended it, or call_llm
\* returned after its fallback sentence); the async for ends
StreamEnd ==
    /\ lpc = "await"
    /\ stream \in {"open", "failed"}
    /\ stream' = "ended"
    /\ lpc' = "parse"
    /\ UNCHANGED <<elapsed, received, complete, mainVars, formatVars, extractVars,
                   modeVars, rankVars>>

\* ask.py 171-176: break on a complete JSON object, break on the timeout,
\* otherwise wait for the next increment
LoopCheck ==
    /\ lpc = "check"
    /\ lpc' = IF complete THEN "parse"
              ELSE IF elapsed > timeout THEN "parse"
              ELSE "await"
    /\ UNCHANGED <<elapsed, stream, received, complete, mainVars, formatVars,
                   extractVars, modeVars, rankVars>>

NextLoop ==
    \/ Tick
    \/ Deliver
    \/ ProviderFail
    \/ StreamEnd
    \/ LoopCheck

SpecLoop == InitLoop /\ [][NextLoop]_vars

\* C24: once the 30 seconds have elapsed the extraction is no longer
\* waiting for the provider: it has stopped accumulating and gone on to parse
\* what it has, whatever the provider does.  Violated in SpecLoop by a
\* provider that delivers nothing: the clock passes the timeout while the loop
\* is still suspended in the async for.
C24_TimeoutStopsAccumulating ==
    elapsed > timeout => lpc # "await"

====
